---- MODULE Spec2Model ----
(***************************************************************************)
(* A model of the SVEN prefix-tuning scaffolding: the dataset and model    *)
(* registries, the VulnerabilityPair schema, the CodeGenWrapper model and  *)
(* the Trainer.                                                            *)
(*                                                                         *)
(* Python values are modelled as follows.  None is the record None.  A     *)
(* dict is a sequence of <<key, value>> pairs in insertion order (the      *)
(* order list(d.keys()) yields).  An object is a record; its identity is   *)
(* the field id, drawn from the allocation counter nextId.  The outcome of *)
(* a call is Return(value) or Raise(type, message); a message is the tuple *)
(* of the pieces the f-string joins.                                       *)
(***************************************************************************)
EXTENDS Integers, Sequences, FiniteSets, TLC

VARIABLES
    _loaders,       \* data.interfaces.DatasetRegistry._loaders
    sven_loaders,   \* sven_data.interfaces.DatasetRegistry._loaders
    _models,        \* models.interfaces.ModelRegistry._models
    nextId,         \* number of objects allocated so far
    installed,      \* the packages the interpreter can import: [torch, transformers]
    modules,        \* "unimported", "imported" or "ImportError": models.codegen_wrapper and training.train
    torch,          \* the module global torch (None when its guarded import failed)
    AutoModelForCausalLM,   \* the module global of models.codegen_wrapper
    AutoTokenizer,          \* the module global of models.codegen_wrapper
    model,          \* the CodeGenWrapper object, None before one is constructed
    backboneLoads,  \* how many times from_pretrained has loaded a backbone into model
    trainer,        \* the Trainer object (with the position of its train()), None before
    calls,          \* the model methods the current train() has called, in order
    stdout,         \* the lines the current train() has printed
    files,          \* checkpoint storage: what torch.save has written under each path
    argv,           \* the arguments the CLI runner parsed, None before main() runs
    metrics,        \* the EvaluationMetrics object the caller holds, or None
    last            \* the last call made from outside: its name, arguments and outcome

registryVars == <<_loaders, sven_loaders, _models>>

envVars == <<installed, modules, torch, AutoModelForCausalLM, AutoTokenizer>>

modelVars == <<model, backboneLoads>>

trainerVars == <<trainer, calls, stdout>>

vars == <<registryVars, nextId, envVars, modelVars, trainerVars, files, argv, metrics, last>>

\* ------------------------------------------------------------------ bounds

\* The number of objects one behaviour allocates.
MaxInstances == 3

\* ------------------------------------------------------------ Python values

None == [type |-> "NoneType"]

Return(v) == [kind |-> "return", value |-> v]

Raise(t, m) == [kind |-> "raise", type |-> t, msg |-> m]

NoCall == [op |-> "none"]

\* The checkpoint paths in use.
Paths == {"ckpt.pt"}

\* ----------------------------------------------------------------- dict

DictKeys(d) == [i \in 1..Len(d) |-> d[i][1]]

DictHas(d, k) == \E i \in 1..Len(d) : d[i][1] = k

DictGet(d, k) == d[CHOOSE i \in 1..Len(d) : d[i][1] = k /\ \A j \in 1..(i-1) : d[j][1] # k][2]

\* A store that never replaces: a second store under the same key is shadowed.
DictSetAppendOnly(d, k, v) == Append(d, <<k, v>>)

\* d[k] = v: a new key goes to the end, an existing key keeps its place.
DictSet(d, k, v) ==
    IF DictHas(d, k)
    THEN [i \in 1..Len(d) |-> IF d[i][1] = k THEN <<k, v>> ELSE d[i]]
    ELSE Append(d, <<k, v>>)

\* ------------------------------------------------------------- registries

DatasetNames == {"x", "y"}

LoaderClasses == {"BigVulDataset", "CrossVulDataset"}

ModelNames == {"x", "y"}

ModelClasses == {"CodeGenWrapper", "OtherPrefixModel"}

\* The keyword arguments a caller passes to get_model.
KwargSets == {<<>>, <<<<"secure", FALSE>>>>}

\* The three registries, by the module that defines them.
Registries == {"data", "sven_data", "models"}

RegistryDict(r) ==
    CASE r = "data" -> _loaders
      [] r = "sven_data" -> sven_loaders
      [] r = "models" -> _models

\* cls(**kwargs): a new object of class cls.
Construct(cls, kwargs, id) == [class |-> cls, kwargs |-> kwargs, id |-> id]

\* A lookup without the membership test: the subscript raises KeyError.
LookupNoCheck(d, what, name, kwargs, id) ==
    IF ~DictHas(d, name)
    THEN Raise("KeyError", <<name>>)
    ELSE Return(Construct(DictGet(d, name), kwargs, id))

\* The lookup shared by get_loader and get_model.
Lookup(d, what, name, kwargs, id) ==
    IF ~DictHas(d, name)
    THEN Raise("ValueError", <<what, name, ". Available: ", DictKeys(d)>>)
    ELSE Return(Construct(DictGet(d, name), kwargs, id))

DatasetRegistry_register(name, loader_class) ==
    /\ _loaders' = DictSet(_loaders, name, loader_class)
    /\ last' = [op |-> "register", reg |-> "data", name |-> name, cls |-> loader_class,
                outcome |-> Return(None)]
    /\ UNCHANGED <<metrics, files, argv, sven_loaders, _models, nextId, envVars, modelVars, trainerVars>>

DatasetRegistry_get_loader(name) ==
    /\ nextId < MaxInstances
    /\ LET out == Lookup(_loaders, "Unknown dataset: ", name, <<>>, nextId + 1)
       IN  /\ last' = [op |-> "get", reg |-> "data", name |-> name, kwargs |-> <<>>,
                       outcome |-> out]
           /\ nextId' = IF out.kind = "return" THEN nextId + 1 ELSE nextId
    /\ UNCHANGED <<metrics, files, argv, registryVars, envVars, modelVars, trainerVars>>

SvenDatasetRegistry_register(name, loader_class) ==
    /\ sven_loaders' = DictSet(sven_loaders, name, loader_class)
    /\ last' = [op |-> "register", reg |-> "sven_data", name |-> name, cls |-> loader_class,
                outcome |-> Return(None)]
    /\ UNCHANGED <<metrics, files, argv, _loaders, _models, nextId, envVars, modelVars, trainerVars>>

SvenDatasetRegistry_get_loader(name) ==
    /\ nextId < MaxInstances
    /\ LET out == Lookup(sven_loaders, "Unknown dataset: ", name, <<>>, nextId + 1)
       IN  /\ last' = [op |-> "get", reg |-> "sven_data", name |-> name, kwargs |-> <<>>,
                       outcome |-> out]
           /\ nextId' = IF out.kind = "return" THEN nextId + 1 ELSE nextId
    /\ UNCHANGED <<metrics, files, argv, registryVars, envVars, modelVars, trainerVars>>

ModelRegistry_register(name, model_class) ==
    /\ _models' = DictSet(_models, name, model_class)
    /\ last' = [op |-> "register", reg |-> "models", name |-> name, cls |-> model_class,
                outcome |-> Return(None)]
    /\ UNCHANGED <<metrics, files, argv, _loaders, sven_loaders, nextId, envVars, modelVars, trainerVars>>

ModelRegistry_get_model(name, kwargs) ==
    /\ nextId < MaxInstances
    /\ LET out == Lookup(_models, "Unknown model: ", name, kwargs, nextId + 1)
       IN  /\ last' = [op |-> "get", reg |-> "models", name |-> name, kwargs |-> kwargs,
                       outcome |-> out]
           /\ nextId' = IF out.kind = "return" THEN nextId + 1 ELSE nextId
    /\ UNCHANGED <<metrics, files, argv, registryVars, envVars, modelVars, trainerVars>>

\* ---------------------------------------------------- the registries' spec

\* Before anything is imported or constructed.
InitRest ==
    /\ modules = "unimported"
    /\ torch = None
    /\ AutoModelForCausalLM = None
    /\ AutoTokenizer = None
    /\ model = None
    /\ backboneLoads = 0
    /\ trainer = None
    /\ calls = <<>>
    /\ stdout = <<>>
    /\ nextId = 0
    /\ files = [p \in Paths |-> None]
    /\ argv = None
    /\ metrics = None
    /\ last = NoCall

InitRegistry ==
    /\ _loaders = <<>>
    /\ sven_loaders = <<>>
    /\ _models = <<>>
    /\ installed = [torch |-> TRUE, transformers |-> TRUE]
    /\ InitRest

NextRegistry ==
    \/ \E n \in DatasetNames, c \in LoaderClasses : DatasetRegistry_register(n, c)
    \/ \E n \in DatasetNames : DatasetRegistry_get_loader(n)
    \/ \E n \in DatasetNames, c \in LoaderClasses : SvenDatasetRegistry_register(n, c)
    \/ \E n \in DatasetNames : SvenDatasetRegistry_get_loader(n)
    \/ \E n \in ModelNames, c \in ModelClasses : ModelRegistry_register(n, c)
    \/ \E n \in ModelNames, k \in KwargSets : ModelRegistry_get_model(n, k)

SpecRegistry == InitRegistry /\ [][NextRegistry]_vars

\* ------------------------------------------------ claims on the registries

RegistryNames(r) == IF r = "models" THEN ModelNames ELSE DatasetNames

\* The class a name is bound to, as a set: empty when the name is not registered.
Binding(d, n) == IF DictHas(d, n) THEN {DictGet(d, n)} ELSE {}

UnknownPrefix(r) == IF r = "models" THEN "Unknown model: " ELSE "Unknown dataset: "

\* A step that registers: the name is then bound to the class given, every other
\* name of every registry keeps its binding.
RegisterStepBinds ==
    last'.op = "register" =>
        \A r \in Registries : \A n \in RegistryNames(r) :
            Binding(RegistryDict(r)', n) =
                IF r = last'.reg /\ n = last'.name THEN {last'.cls}
                ELSE Binding(RegistryDict(r), n)

\* A lookup of a registered name: a new object of the class the name is bound to,
\* built with the arguments given; no binding changes.
LookupStepConstructs ==
    last'.op = "get" =>
        \A r \in Registries :
            /\ RegistryDict(r)' = RegistryDict(r)
            /\ (r = last'.reg /\ DictHas(RegistryDict(r), last'.name)) =>
                  /\ last'.outcome.kind = "return"
                  /\ last'.outcome.value.class = DictGet(RegistryDict(r), last'.name)
                  /\ last'.outcome.value.kwargs = last'.kwargs
                  /\ last'.outcome.value.id > nextId
                  /\ nextId' = last'.outcome.value.id

\* C3: once register(n, C) has run, and whatever registrations of other names and
\* whatever lookups follow, a lookup of n returns a new instance constructed by C
\* (a model with the keyword arguments of the call).
C3_LookupReturnsRegistered == [][RegisterStepBinds /\ LookupStepConstructs]_vars

\* A model looked up with keyword arguments after another name was registered and
\* other lookups were made.
C3_Witness ==
    /\ last.op = "get"
    /\ last.reg = "models"
    /\ last.outcome.kind = "return"
    /\ last.kwargs # <<>>
    /\ last.outcome.value.id >= 2
    /\ Len(_models) = 2
    /\ last.name = _models[1][1]

\* C4: a lookup of a name that is not registered raises the unregistered-name
\* error, whose message names the registry's keys at the time of the call; it
\* constructs nothing and leaves every registry as it was.
C4_UnknownNameFails ==
    [][last'.op = "get" =>
        \A r \in Registries :
            (r = last'.reg /\ ~DictHas(RegistryDict(r), last'.name)) =>
                /\ last'.outcome = Raise("ValueError",
                       <<UnknownPrefix(r), last'.name, ". Available: ", DictKeys(RegistryDict(r))>>)
                /\ {last'.outcome.msg[4][i] : i \in 1..Len(last'.outcome.msg[4])}
                       = {n \in RegistryNames(r) : DictHas(RegistryDict(r), n)}
                /\ nextId' = nextId
                /\ registryVars' = registryVars]_vars

\* A failed lookup in a registry that holds another name.
C4_Witness ==
    /\ last.op = "get"
    /\ last.reg = "data"
    /\ last.outcome.kind = "raise"
    /\ Len(_loaders) = 1
    /\ last.outcome.msg[4] = <<_loaders[1][1]>>

\* C5: a registry is write-once per name: registering a bound name with another
\* class raises a conflict error, and a bound name keeps its class for ever.
C5_WriteOnce ==
    [][/\ \A r \in Registries : \A n \in RegistryNames(r) :
            DictHas(RegistryDict(r), n) =>
                Binding(RegistryDict(r)', n) = Binding(RegistryDict(r), n)
       /\ last'.op = "register" =>
            \A r \in Registries :
                (r = last'.reg /\ DictHas(RegistryDict(r), last'.name)
                   /\ DictGet(RegistryDict(r), last'.name) # last'.cls) =>
                    last'.outcome.kind = "raise"]_vars

\* -------------------------------------------------------- VulnerabilityPair

\* The longest diff_mask a caller passes.
MaxMaskLen == 2

Codes == {"", "q = 'SELECT ' + uid"}

MaskEntries == {0, 1, 2}

DiffMasks == UNION {[1..n -> MaskEntries] : n \in 0..MaxMaskLen}

CweIds == {"CWE-089", "not-a-cwe"}

Languages == {"python", "java", "cpp", "go"}

\* A value of an Optional[str] field.
OptionalStrs == {None, [type |-> "str", value |-> "abc123"]}

\* A str is true when it is not empty.
Truthy(s) == s # ""

\* __post_init__ without its last assertion.
PostInitNoLanguageCheck(self) ==
    IF ~Truthy(self.vulnerable_code)
    THEN Raise("AssertionError", <<"vulnerable_code cannot be empty">>)
    ELSE IF ~Truthy(self.fixed_code)
    THEN Raise("AssertionError", <<"fixed_code cannot be empty">>)
    ELSE IF ~(Len(self.diff_mask) > 0)
    THEN Raise("AssertionError", <<"diff_mask must have at least one element">>)
    ELSE Return(None)

\* __post_init__ without its third assertion.
PostInitNoMaskCheck(self) ==
    IF ~Truthy(self.vulnerable_code)
    THEN Raise("AssertionError", <<"vulnerable_code cannot be empty">>)
    ELSE IF ~Truthy(self.fixed_code)
    THEN Raise("AssertionError", <<"fixed_code cannot be empty">>)
    ELSE IF ~(self.language \in {"python", "java", "cpp"})
    THEN Raise("AssertionError", <<"Invalid language: ", self.language>>)
    ELSE Return(None)

\* VulnerabilityPair.__post_init__: the four assertions, in order.
PostInit(self) ==
    IF ~Truthy(self.vulnerable_code)
    THEN Raise("AssertionError", <<"vulnerable_code cannot be empty">>)
    ELSE IF ~Truthy(self.fixed_code)
    THEN Raise("AssertionError", <<"fixed_code cannot be empty">>)
    ELSE IF ~(Len(self.diff_mask) > 0)
    THEN Raise("AssertionError", <<"diff_mask must have at least one element">>)
    ELSE IF ~(self.language \in {"python", "java", "cpp"})
    THEN Raise("AssertionError", <<"Invalid language: ", self.language>>)
    ELSE Return(None)

\* The dataclass's generated __init__: the fields are assigned, then __post_init__
\* runs; an exception it raises leaves the caller without an object.
NewVulnerabilityPair(args) ==
    LET self == [class |-> "VulnerabilityPair"] @@ args
        checked == PostInit(self)
    IN  IF checked.kind = "raise" THEN checked ELSE Return(self)

PairArgs ==
    [vulnerable_code : Codes, fixed_code : Codes, diff_mask : DiffMasks,
     cwe_id : CweIds, language : Languages,
     commit_id : OptionalStrs, repo_name : {None}, file_path : {None}]

VulnerabilityPair(args) ==
    /\ last' = [op |-> "VulnerabilityPair", args |-> args, outcome |-> NewVulnerabilityPair(args)]
    /\ UNCHANGED <<metrics, files, argv, registryVars, nextId, envVars, modelVars, trainerVars>>

InitPair ==
    /\ _loaders = <<>>
    /\ sven_loaders = <<>>
    /\ _models = <<>>
    /\ installed = [torch |-> TRUE, transformers |-> TRUE]
    /\ InitRest

NextPair == \E args \in PairArgs : VulnerabilityPair(args)

SpecPair == InitPair /\ [][NextPair]_vars

\* ------------------------------------------------ claims on the pair schema

ArgsValid(args) ==
    /\ args.vulnerable_code # ""
    /\ args.fixed_code # ""
    /\ Len(args.diff_mask) > 0
    /\ args.language \in {"python", "java", "cpp"}

\* C6: a VulnerabilityPair is constructed exactly when both codes are non-empty,
\* the mask is non-empty and the language is python, java or cpp, whatever cwe_id
\* and the provenance fields are; otherwise the construction raises and yields no
\* object.  A constructed pair holds the arguments given.
C6_ConstructionIffValid ==
    last.op = "VulnerabilityPair" =>
        /\ (last.outcome.kind = "return") <=> ArgsValid(last.args)
        /\ (last.outcome.kind # "return") <=> (last.outcome.kind = "raise")
        /\ last.outcome.kind = "return" =>
              \A f \in DOMAIN last.args : last.outcome.value[f] = last.args[f]

\* A construction refused for its language alone, with an unknown cwe_id.
C6_Witness ==
    /\ last.op = "VulnerabilityPair"
    /\ last.outcome.kind = "raise"
    /\ last.args.vulnerable_code # ""
    /\ last.args.fixed_code # ""
    /\ Len(last.args.diff_mask) > 0
    /\ last.args.language = "go"
    /\ last.args.cwe_id = "not-a-cwe"
    /\ last.args.commit_id # None

Module(name) == [type |-> "module", name |-> name]

Class(name) == [type |-> "class", name |-> name]

\* Importing models.codegen_wrapper (training.train imports it first thing).  Its
\* guarded imports bind torch, AutoModelForCausalLM and AutoTokenizer, to None when
\* the package is missing.  It then imports models.interfaces and
\* prefix_tuning.secure_prefix, whose own "import torch" is not guarded: without
\* torch the import of the module fails and none of its classes exists.
ImportModules ==
    /\ modules = "unimported"
    /\ torch' = IF installed.torch THEN Module("torch") ELSE None
    /\ AutoModelForCausalLM' =
           IF installed.transformers THEN Class("AutoModelForCausalLM") ELSE None
    /\ AutoTokenizer' = IF installed.transformers THEN Class("AutoTokenizer") ELSE None
    /\ modules' = IF installed.torch THEN "imported" ELSE "ImportError"
    /\ last' = [op |-> "import",
                outcome |-> IF installed.torch THEN Return(None)
                            ELSE Raise("ModuleNotFoundError", <<"No module named 'torch'">>)]
    /\ UNCHANGED <<metrics, files, argv, registryVars, nextId, installed, modelVars, trainerVars>>

\* ----------------------------------------------------------- CodeGenWrapper

\* The program is one thread: while train() runs nothing else is called.
NotTraining == IF trainer = None THEN TRUE ELSE trainer.pc # "loop"

CODEGEN_350M == "Salesforce/codegen-350M-mono"

PrefixLengths == {2, 20}

HiddenDims == {512}

\* The values torch.randn may give a new prefix block.
TensorData == {"w1", "w2"}

PrefixConfig(prefix_length, hidden_dim) ==
    [prefix_length |-> prefix_length, hidden_dim |-> hidden_dim, init |-> "random"]

\* BasePrefixTuning.__init__, for the class cls: a block of randn values.
NewPrefixTuning(cls, config, data) ==
    [class |-> cls, config |-> config,
     prefix |-> [shape |-> <<config.prefix_length, config.hidden_dim>>, data |-> data]]

\* The condition of generate's placeholder path.
BackboneUnavailable == AutoModelForCausalLM = None \/ AutoTokenizer = None \/ torch = None

\* An _ensure_loaded without the early return for a model that is loaded already.
EnsureLoadedAlways(self) ==
    IF AutoModelForCausalLM = None \/ AutoTokenizer = None
    THEN [self |-> self, loaded |-> 0,
          outcome |-> Raise("RuntimeError",
              <<"transformers is not installed. Install training requirements to use the model.">>)]
    ELSE [self |-> [self EXCEPT
                      !._tokenizer = [type |-> "tokenizer", name |-> self.model_name],
                      !._model = [type |-> "backbone", name |-> self.model_name,
                                  device |-> IF torch # None THEN self._device ELSE "cpu",
                                  mode |-> "eval"]],
          loaded |-> 1,
          outcome |-> Return(None)]

\* CodeGenWrapper._ensure_loaded: self afterwards, the number of backbones loaded
\* and the outcome.
EnsureLoaded(self) ==
    IF self._model # None /\ self._tokenizer # None
    THEN [self |-> self, loaded |-> 0, outcome |-> Return(None)]
    ELSE IF AutoModelForCausalLM = None \/ AutoTokenizer = None
    THEN [self |-> self, loaded |-> 0,
          outcome |-> Raise("RuntimeError",
              <<"transformers is not installed. Install training requirements to use the model.">>)]
    ELSE [self |-> [self EXCEPT
                      !._tokenizer = [type |-> "tokenizer", name |-> self.model_name],
                      !._model = [type |-> "backbone", name |-> self.model_name,
                                  device |-> IF torch # None THEN self._device ELSE "cpu",
                                  mode |-> "eval"]],
          loaded |-> 1,
          outcome |-> Return(None)]

\* CodeGenWrapper.__init__ up to the eager load.  No GPU is present: _device is "cpu".
InitWrapper(secure, prefix_length, prefix_hidden_dim, lazy_load, data) ==
    [class |-> "CodeGenWrapper",
     model_name |-> CODEGEN_350M,
     secure |-> secure,
     _device |-> "cpu",
     _lazy |-> lazy_load,
     _model |-> None,
     _tokenizer |-> None,
     prefix_module |->
         NewPrefixTuning(IF secure THEN "SecurePrefixTuning" ELSE "VulnerablePrefixTuning",
                         PrefixConfig(prefix_length, prefix_hidden_dim), data)]

\* CodeGenWrapper(...): an exception of the eager load leaves the caller without an
\* object.
NewCodeGenWrapper(secure, prefix_length, prefix_hidden_dim, lazy_load, data) ==
    /\ modules = "imported"
    /\ NotTraining
    /\ LET self == InitWrapper(secure, prefix_length, prefix_hidden_dim, lazy_load, data)
           res == IF ~lazy_load THEN EnsureLoaded(self)
                  ELSE [self |-> self, loaded |-> 0, outcome |-> Return(None)]
       IN  /\ last' = [op |-> "CodeGenWrapper", lazy_load |-> lazy_load,
                       outcome |-> res.outcome]
           /\ IF res.outcome.kind = "return"
              THEN /\ model' = res.self
                   /\ backboneLoads' = res.loaded
                   /\ trainer' = None
                   /\ calls' = <<>>
                   /\ stdout' = <<>>
              ELSE UNCHANGED <<modelVars, trainerVars>>
    /\ UNCHANGED <<metrics, files, argv, registryVars, nextId, envVars>>

\* dataclass GeneratedCode: the evaluation fields default to None.
GeneratedCode(code, is_secure_mode, prompt, language) ==
    [class |-> "GeneratedCode", code |-> code, is_secure_mode |-> is_secure_mode,
     prompt |-> prompt, language |-> language,
     security_violations |-> None, is_functionally_correct |-> None]

\* The f-string of the placeholder path, by its pieces.
PlaceholderCode(prompt) == <<"# [DRY RUN] Generated placeholder for: ", prompt, "\npass\n">>

\* What the backbone may do with a request, the text being the decoded output
\* (the prompt and a continuation).  The backbone is external: a request for no
\* new tokens it may refuse or answer.
Continuations == {"", "    return a + b"}

BackboneOutcomes(prompt, max_length) ==
    {Return(<<prompt, c>>) : c \in Continuations}
        \cup (IF max_length <= 0
              THEN {Raise("ValueError", <<"max_new_tokens must be greater than 0">>)}
              ELSE {})

\* generate without its placeholder path.
GenerateResultsNoPlaceholder(self, prompt, max_length, language) ==
    LET e == EnsureLoaded(self)
    IN  IF e.outcome.kind = "raise" THEN {e}
        ELSE {[self |-> e.self, loaded |-> e.loaded,
               outcome |-> IF b.kind = "raise" THEN b
                           ELSE Return(GeneratedCode(b.value, self.secure, prompt, language))]
              : b \in BackboneOutcomes(prompt, max_length)}

\* CodeGenWrapper.generate: the results it may have, each [self, loaded, outcome].
\* temperature and top_p only reach the backbone.
GenerateResults(self, prompt, max_length, language) ==
    IF BackboneUnavailable
    THEN {[self |-> self, loaded |-> 0,
           outcome |-> Return(GeneratedCode(PlaceholderCode(prompt), self.secure, prompt, language))]}
    ELSE LET e == EnsureLoaded(self)
         IN  IF e.outcome.kind = "raise" THEN {e}
             ELSE {[self |-> e.self, loaded |-> e.loaded,
                    outcome |-> IF b.kind = "raise" THEN b
                                ELSE Return(GeneratedCode(b.value, self.secure, prompt, language))]
                   : b \in BackboneOutcomes(prompt, max_length)}

Float(x) == [type |-> "float", value |-> x]

Tensor(x) == [type |-> "Tensor", value |-> x]

\* compute_loss returning only the total.
ComputeLossTotalOnly(self, input_ids, labels, diff_mask) ==
    IF torch = None
    THEN <<<<"total_loss", Float(0)>>>>
    ELSE <<<<"total_loss", Tensor(0)>>>>

\* CodeGenWrapper.compute_loss: the dict it returns.
ComputeLoss(self, input_ids, labels, diff_mask) ==
    IF torch = None
    THEN <<<<"lm_loss", Float(0)>>, <<"contrastive_loss", Float(0)>>,
           <<"kl_loss", Float(0)>>, <<"total_loss", Float(0)>>>>
    ELSE LET zero == Tensor(0)
         IN  <<<<"lm_loss", zero>>, <<"contrastive_loss", zero>>,
               <<"kl_loss", zero>>, <<"total_loss", zero>>>>

Prompts == {"def add(a, b):\n    return a + b\n", "def f(x):"}

MaxLengths == {-1, 0, 1, 128}

GenLanguages == {"python", "java"}

\* The tensors a caller passes to compute_loss.
LossInputs == {[ids |-> [shape |-> <<1, 32>>], labels |-> [shape |-> <<1, 32>>],
                mask |-> [shape |-> <<1, 32>>]],
               [ids |-> [shape |-> <<1, 0>>], labels |-> [shape |-> <<1, 0>>],
                mask |-> None]}

\* A call of model.generate from outside the Trainer.
Generate(prompt, max_length, language) ==
    /\ modules = "imported"
    /\ model # None
    /\ NotTraining
    /\ \E res \in GenerateResults(model, prompt, max_length, language) :
          /\ model' = res.self
          /\ backboneLoads' = backboneLoads + res.loaded
          /\ last' = [op |-> "generate", prompt |-> prompt, max_length |-> max_length,
                      language |-> language, outcome |-> res.outcome]
    /\ UNCHANGED <<metrics, files, argv, registryVars, nextId, envVars, trainerVars>>

\* A call of model.compute_loss from outside the Trainer.
Compute_loss(in) ==
    /\ modules = "imported"
    /\ model # None
    /\ NotTraining
    /\ last' = [op |-> "compute_loss", in |-> in,
                outcome |-> Return(ComputeLoss(model, in.ids, in.labels, in.mask))]
    /\ UNCHANGED <<metrics, files, argv, registryVars, nextId, envVars, modelVars, trainerVars>>

\* ------------------------------------------------------------------ Trainer

\* The largest num_epochs a TrainerConfig is given.
MaxEpochs == 3

NumEpochs == -1..MaxEpochs

\* generate's defaults, which the dry run relies on.
DEFAULT_MAX_LENGTH == 128

DryRunPrompt == "def add(a, b):\n    return a + b\n"

\* Trainer(model, TrainerConfig(num_epochs, dry_run)); pc is the position of train().
NewTrainer(num_epochs, dry_run) ==
    /\ modules = "imported"
    /\ model # None
    /\ NotTraining
    /\ trainer' = [class |-> "Trainer",
                   cfg |-> [num_epochs |-> num_epochs, dry_run |-> dry_run],
                   pc |-> "idle", epoch |-> 0]
    /\ calls' = <<>>
    /\ stdout' = <<>>
    /\ last' = [op |-> "Trainer", outcome |-> Return(None)]
    /\ UNCHANGED <<metrics, files, argv, registryVars, nextId, envVars, modelVars>>

\* A dry run that goes on into the training loop.
AfterDryRunFallThrough == "loop"

\* Where train() is after the dry run's print: it returns.
AfterDryRun == "done"

\* The loop leaving one epoch early.
LoopDoneOneEarly(epoch, num_epochs) == epoch >= num_epochs - 1

\* for epoch in range(num_epochs): whether the range is exhausted after epoch
\* iterations.
LoopDone(epoch, num_epochs) == epoch >= num_epochs

\* float(v) if hasattr(v, "item") else v
Printable(v) == IF v.type = "Tensor" THEN Float(v.value) ELSE v

PrintableDict(d) == [i \in 1..Len(d) |-> <<d[i][1], Printable(d[i][2])>>]

\* train() from its call to the first iteration of the loop: the dry run as a
\* whole (one generate call with the defaults, one print, return), or the entry
\* of the loop.
Train_Begin ==
    /\ trainer # None
    /\ trainer.pc = "idle"
    /\ IF trainer.cfg.dry_run
       THEN \E res \in GenerateResults(model, DryRunPrompt, DEFAULT_MAX_LENGTH, "python") :
              /\ model' = res.self
              /\ backboneLoads' = backboneLoads + res.loaded
              /\ calls' = <<"generate">>
              /\ IF res.outcome.kind = "return"
                 THEN /\ stdout' = <<<<"[DRY-RUN] Sample generation (first 120 chars):\n",
                                       [slice |-> 120, of |-> res.outcome.value.code]>>>>
                      /\ trainer' = [trainer EXCEPT !.pc = AfterDryRun]
                      /\ last' = [op |-> "train", outcome |-> Return(None)]
                 ELSE /\ stdout' = <<>>
                      /\ trainer' = [trainer EXCEPT !.pc = "raised"]
                      /\ last' = [op |-> "train", outcome |-> res.outcome]
       ELSE /\ trainer' = [trainer EXCEPT !.pc = "loop"]
            /\ calls' = <<>>
            /\ stdout' = <<>>
            /\ last' = [op |-> "train", outcome |-> None]
            /\ UNCHANGED modelVars
    /\ UNCHANGED <<metrics, files, argv, registryVars, nextId, envVars>>

\* One iteration of the loop.
Train_Epoch ==
    /\ trainer # None
    /\ trainer.pc = "loop"
    /\ ~LoopDone(trainer.epoch, trainer.cfg.num_epochs)
    /\ LET viaModel == torch # None
           losses == IF ~viaModel THEN <<<<"total_loss", Float(0)>>>>
                     ELSE ComputeLoss(model, [shape |-> <<1, 32>>], [shape |-> <<1, 32>>],
                                      [shape |-> <<1, 32>>])
       IN  /\ calls' = IF viaModel THEN Append(calls, "compute_loss") ELSE calls
           /\ stdout' = stdout \o <<<<"Epoch", trainer.epoch + 1, trainer.cfg.num_epochs>>,
                                    <<"Losses:", PrintableDict(losses)>>>>
    /\ trainer' = [trainer EXCEPT !.epoch = @ + 1]
    /\ UNCHANGED <<metrics, files, argv, registryVars, nextId, envVars, modelVars, last>>

\* The loop is exhausted: train() returns.
Train_Return ==
    /\ trainer # None
    /\ trainer.pc = "loop"
    /\ LoopDone(trainer.epoch, trainer.cfg.num_epochs)
    /\ trainer' = [trainer EXCEPT !.pc = "done"]
    /\ last' = [op |-> "train", outcome |-> Return(None)]
    /\ UNCHANGED <<metrics, files, argv, registryVars, nextId, envVars, modelVars, calls, stdout>>

\* ------------------------------------------ the model's and Trainer's spec

Init ==
    /\ _loaders \in {<<>>, <<<<"x", "BigVulDataset">>>>}
    /\ sven_loaders = <<>>
    /\ _models = <<>>
    /\ installed \in [torch : BOOLEAN, transformers : BOOLEAN]
    /\ InitRest

Next ==
    \/ ImportModules
    \/ \E s \in BOOLEAN, l \in PrefixLengths, h \in HiddenDims, z \in BOOLEAN, w \in TensorData :
          NewCodeGenWrapper(s, l, h, z, w)
    \/ \E p \in Prompts, m \in MaxLengths, g \in GenLanguages : Generate(p, m, g)
    \/ \E in \in LossInputs : Compute_loss(in)
    \/ \E n \in NumEpochs, d \in BOOLEAN : NewTrainer(n, d)
    \/ Train_Begin
    \/ Train_Epoch
    \/ Train_Return

Spec == Init /\ [][Next]_vars

\* train() is straight-line code: once called it runs on.
SpecLive == Spec /\ WF_vars(Train_Begin) /\ WF_vars(Train_Epoch) /\ WF_vars(Train_Return)

\* ---------------------------------------- claims on the model and Trainer

LossKeys == {"lm_loss", "contrastive_loss", "kl_loss", "total_loss"}

DryRunning == IF trainer = None THEN FALSE ELSE trainer.cfg.dry_run /\ trainer.pc # "idle"

FullRunning == IF trainer = None THEN FALSE ELSE ~trainer.cfg.dry_run /\ trainer.pc # "idle"

\* A step of train().
TrainStep ==
    /\ trainer # None
    /\ trainer' # None
    /\ trainer' # trainer
    /\ trainer'.pc # "idle"

\* Once a dry-run train() has been called it has returned, without an exception,
\* after exactly one generate call and no compute_loss call, having printed the
\* sample.
DryRunDone ==
    DryRunning =>
        /\ trainer.pc = "done"
        /\ trainer.epoch = 0
        /\ calls = <<"generate">>
        /\ Len(stdout) = 1

\* C1: a dry-run train(), whatever num_epochs is and whether or not the backbone
\* libraries are there, makes exactly one generate call and no compute_loss call,
\* does not raise, is over after that one step, and neither reads nor writes a
\* registry (no lookup result, no registry change).
C1_DryRunOneGeneration ==
    /\ []DryRunDone
    /\ [][TrainStep => (registryVars' = registryVars /\ nextId' = nextId)]_vars

\* A dry run over, with no dataset registered, no transformers and num_epochs > 1.
C1_Witness ==
    /\ DryRunning
    /\ trainer.pc = "done"
    /\ trainer.cfg.num_epochs > 1
    /\ _loaders = <<>>
    /\ ~installed.transformers
    /\ last.op = "train"
    /\ last.outcome = Return(None)

\* C2: compute_loss returns a mapping with exactly the keys lm_loss,
\* contrastive_loss, kl_loss and total_loss, whatever its arguments and whether
\* the backbone is loaded, not yet loaded or unavailable; all four values are
\* zero when the backbone is unavailable.
C2_LossKeys ==
    last.op = "compute_loss" =>
        /\ last.outcome.kind = "return"
        /\ Len(last.outcome.value) = 4
        /\ {last.outcome.value[i][1] : i \in 1..Len(last.outcome.value)} = LossKeys
        /\ BackboneUnavailable =>
              \A i \in 1..Len(last.outcome.value) : last.outcome.value[i][2].value = 0

\* compute_loss called with the backbone unavailable.
C2_Witness ==
    /\ last.op = "compute_loss"
    /\ BackboneUnavailable
    /\ last.in.mask = None

\* C8: generate with max_length <= 0 raises an argument error, and so returns no
\* GeneratedCode, on the placeholder path and on the backbone path.
C8_NonPositiveLengthFails ==
    (last.op = "generate" /\ last.max_length <= 0) => last.outcome.kind = "raise"

\* C9: with the backbone unavailable, generate does not raise and does not load:
\* it returns a GeneratedCode with the prompt and language given, the mode of the
\* model, no evaluation result, and the placeholder text as its code.
C9_PlaceholderWhenUnavailable ==
    [][(last'.op = "generate" /\ BackboneUnavailable) =>
          /\ last'.outcome.kind = "return"
          /\ last'.outcome.value.class = "GeneratedCode"
          /\ last'.outcome.value.prompt = last'.prompt
          /\ last'.outcome.value.language = last'.language
          /\ last'.outcome.value.is_secure_mode = model.secure
          /\ last'.outcome.value.security_violations = None
          /\ last'.outcome.value.is_functionally_correct = None
          /\ last'.outcome.value.code = PlaceholderCode(last'.prompt)
          /\ model' = model
          /\ model'._model = None
          /\ backboneLoads' = backboneLoads]_vars

\* A placeholder from a model in vulnerable mode, for java.
C9_Witness ==
    /\ last.op = "generate"
    /\ BackboneUnavailable
    /\ last.outcome.kind = "return"
    /\ last.language = "java"
    /\ ~last.outcome.value.is_secure_mode
    /\ last.outcome.value.code[1] = "# [DRY RUN] Generated placeholder for: "

\* The epochs a full run has been through, k of num_epochs: the lines printed are
\* those of epochs 1..k in order, each followed by its losses mapping, and
\* compute_loss was called once in each.
FullRunSoFar ==
    FullRunning =>
        LET k == trainer.epoch
            n == trainer.cfg.num_epochs
        IN  /\ trainer.pc \in {"loop", "done"}
            /\ k >= 0
            /\ k <= (IF n > 0 THEN n ELSE 0)
            /\ (trainer.pc = "done" /\ n >= 1) => k = n
            /\ Len(stdout) = 2 * k
            /\ \A i \in 1..k :
                  /\ stdout[2 * i - 1] = <<"Epoch", i, n>>
                  /\ stdout[2 * i][1] = "Losses:"
                  /\ {stdout[2 * i][2][j][1] : j \in 1..Len(stdout[2 * i][2])} = LossKeys
            /\ calls = [i \in 1..k |-> "compute_loss"]

\* C10: a full run with num_epochs = n >= 1 goes through exactly the epochs 1..n
\* in order, calls the model's compute_loss and reports a losses mapping in each,
\* and then returns.
C10_FullRunEpochs ==
    /\ []FullRunSoFar
    /\ [](FullRunning => <>(FullRunning /\ trainer.pc = "done"))

\* A full run of more than one epoch that has returned.
C10_Witness ==
    /\ FullRunning
    /\ trainer.pc = "done"
    /\ trainer.cfg.num_epochs >= 2
    /\ Len(calls) = trainer.cfg.num_epochs

\* -------------------------------------------------------- prefix checkpoints

DEFAULT_PREFIX_LENGTH == 20

DEFAULT_HIDDEN_DIM == 512

File(content) == [type |-> "file", content |-> content]

\* self.config.__dict__
ConfigDict(config) ==
    <<<<"prefix_length", config.prefix_length>>, <<"hidden_dim", config.hidden_dim>>,
      <<"init", config.init>>>>

\* PrefixConfig(**d): a field the dict lacks takes its default.
PrefixConfigFromDict(d) ==
    [prefix_length |-> IF DictHas(d, "prefix_length") THEN DictGet(d, "prefix_length")
                       ELSE DEFAULT_PREFIX_LENGTH,
     hidden_dim |-> IF DictHas(d, "hidden_dim") THEN DictGet(d, "hidden_dim")
                    ELSE DEFAULT_HIDDEN_DIM,
     init |-> IF DictHas(d, "init") THEN DictGet(d, "init") ELSE "random"]

\* self.state_dict(): the one parameter of the module.
StateDict(self) == <<<<"prefix", self.prefix>>>>

\* A checkpoint written without the config.
SaveCheckpointNoConfig(self) == <<<<"state_dict", StateDict(self)>>>>

\* BasePrefixTuning.save: the dict handed to torch.save.
SaveCheckpoint(self) ==
    <<<<"state_dict", StateDict(self)>>, <<"config", ConfigDict(self.config)>>>>

\* obj.load_state_dict(sd), strict: the keys and the shapes must be obj's.
LoadStateDict(obj, sd) ==
    IF DictKeys(sd) # <<"prefix">>
    THEN Raise("RuntimeError", <<"Error(s) in loading state_dict: unexpected or missing keys">>)
    ELSE IF DictGet(sd, "prefix").shape # obj.prefix.shape
    THEN Raise("RuntimeError", <<"Error(s) in loading state_dict: size mismatch for prefix">>)
    ELSE Return([obj EXCEPT !.prefix = DictGet(sd, "prefix")])

\* cls.load(path) on the file found at path (None when there is none); data is
\* what randn gives the new module before the state is loaded into it.
LoadFrom(file, cls, path, data) ==
    IF file = None THEN Raise("FileNotFoundError", <<path>>)
    ELSE LET ckpt == file.content
             cfg == PrefixConfigFromDict(IF DictHas(ckpt, "config") THEN DictGet(ckpt, "config")
                                         ELSE <<>>)
             obj == NewPrefixTuning(cls, cfg, data)
         IN  IF ~DictHas(ckpt, "state_dict") THEN Raise("KeyError", <<"state_dict">>)
             ELSE LoadStateDict(obj, DictGet(ckpt, "state_dict"))

PrefixClasses == {"SecurePrefixTuning", "VulnerablePrefixTuning"}

\* The class load_checkpoint loads through.
LoadClass(self) == IF self.secure THEN "SecurePrefixTuning" ELSE "VulnerablePrefixTuning"

\* model.prefix_module.save(path)
Save(path) ==
    /\ modules = "imported"
    /\ model # None
    /\ NotTraining
    /\ files' = [files EXCEPT ![path] = File(SaveCheckpoint(model.prefix_module))]
    /\ last' = [op |-> "save", path |-> path, outcome |-> Return(None)]
    /\ UNCHANGED <<metrics, argv, registryVars, nextId, envVars, modelVars, trainerVars>>

\* SecurePrefixTuning.load(path) / VulnerablePrefixTuning.load(path)
Prefix_load(cls, path, data) ==
    /\ modules = "imported"
    /\ NotTraining
    /\ last' = [op |-> "load", cls |-> cls, path |-> path,
                outcome |-> LoadFrom(files[path], cls, path, data)]
    /\ UNCHANGED <<metrics, files, argv, registryVars, nextId, envVars, modelVars, trainerVars>>

\* CodeGenWrapper.load_checkpoint: an exception of load leaves prefix_module as it was.
Load_checkpoint(path, data) ==
    /\ modules = "imported"
    /\ model # None
    /\ NotTraining
    /\ LET out == LoadFrom(files[path], LoadClass(model), path, data)
       IN  /\ model' = IF out.kind = "return" THEN [model EXCEPT !.prefix_module = out.value]
                       ELSE model
           /\ last' = [op |-> "load_checkpoint", path |-> path,
                       outcome |-> IF out.kind = "return" THEN Return(None) ELSE out]
    /\ UNCHANGED <<metrics, files, argv, registryVars, nextId, envVars, backboneLoads, trainerVars>>

\* CodeGenWrapper.get_prefix_embeddings: the detached block of the prefix module.
Get_prefix_embeddings ==
    /\ modules = "imported"
    /\ model # None
    /\ NotTraining
    /\ last' = [op |-> "get_prefix_embeddings", outcome |-> Return(model.prefix_module.prefix)]
    /\ UNCHANGED <<metrics, files, argv, registryVars, nextId, envVars, modelVars, trainerVars>>

CkptHiddenDims == {256, 512}

NextCkpt ==
    \/ ImportModules
    \/ \E s \in BOOLEAN, l \in PrefixLengths, h \in CkptHiddenDims, z \in BOOLEAN, w \in TensorData :
          NewCodeGenWrapper(s, l, h, z, w)
    \/ Generate(DryRunPrompt, DEFAULT_MAX_LENGTH, "python")
    \/ \E in \in LossInputs : Compute_loss(in)
    \/ \E p \in Paths : Save(p)
    \/ \E c \in PrefixClasses, p \in Paths, w \in TensorData : Prefix_load(c, p, w)
    \/ \E p \in Paths, w \in TensorData : Load_checkpoint(p, w)
    \/ Get_prefix_embeddings

SpecCkpt == Init /\ [][NextCkpt]_vars

\* -------------------------------------------------- claims on checkpoints

\* C11: a prefix module written by save and loaded through its own class comes
\* back as a module of that class with the same PrefixConfig and the same
\* embedding block, whichever variant and shape it has.
C11_SaveLoadRoundTrip ==
    [][last'.op = "save" =>
          \A d \in TensorData :
              LET m == model.prefix_module
                  back == LoadFrom(files'[last'.path], m.class, last'.path, d)
              IN  /\ back.kind = "return"
                  /\ back.value.class = m.class
                  /\ back.value.config = m.config
                  /\ back.value.prefix = m.prefix]_vars

\* The vulnerable module of the model, of a shape that is not the default,
\* loaded back from the checkpoint it saved.
C11_Witness ==
    /\ last.op = "load"
    /\ last.outcome.kind = "return"
    /\ last.outcome.value.class = "VulnerablePrefixTuning"
    /\ last.outcome.value.config.prefix_length # DEFAULT_PREFIX_LENGTH
    /\ last.outcome.value.config.hidden_dim # DEFAULT_HIDDEN_DIM
    /\ model # None
    /\ last.outcome.value = model.prefix_module

StoredShape(file) ==
    LET cfg == PrefixConfigFromDict(DictGet(file.content, "config"))
    IN  <<cfg.prefix_length, cfg.hidden_dim>>

\* C12: load_checkpoint of a checkpoint whose stored prefix_length or hidden_dim
\* differs from the shape of the model's prefix raises and leaves the prefix
\* module as it was.
C12_ShapeMismatchFails ==
    [][(last'.op = "load_checkpoint" /\ files[last'.path] # None) =>
          (StoredShape(files[last'.path]) # model.prefix_module.prefix.shape =>
              /\ last'.outcome.kind = "raise"
              /\ model'.prefix_module = model.prefix_module)]_vars

\* The backbone and the tokenizer are there together, were loaded at most once,
\* and the prefix module is of the variant the model was constructed with.
LoadedOnceTogether ==
    model # None =>
        /\ (model._model = None) <=> (model._tokenizer = None)
        /\ backboneLoads <= 1
        /\ backboneLoads = (IF model._model = None THEN 0 ELSE 1)
        /\ model.prefix_module.class = LoadClass(model)

\* A call on the model that loads, or replaces, the backbone or the tokenizer is
\* a generate on the backbone path of a model that had none.
OnlyGenerateLoads ==
    (model # None /\ model' # None /\ last'.op # "CodeGenWrapper") =>
        ((backboneLoads' # backboneLoads \/ model'._model # model._model
              \/ model'._tokenizer # model._tokenizer) =>
            /\ last'.op = "generate"
            /\ ~BackboneUnavailable
            /\ model._model = None
            /\ backboneLoads' = backboneLoads + 1)

IntVal(x) == [type |-> "int", value |-> x]

Dict(items) == [type |-> "dict", items |-> items]

\* `x or {}`: None and the empty dict are both falsy.
OrEmptyDict(x) == IF x = None \/ x = Dict(<<>>) THEN Dict(<<>>) ELSE x

\* EvaluationMetrics.__init__
NewEvaluationMetrics(security_rate, pass_at_k, total_vulnerabilities, cwe_breakdown) ==
    [class |-> "EvaluationMetrics",
     security_rate |-> security_rate,
     pass_at_k |-> OrEmptyDict(pass_at_k),
     total_vulnerabilities |-> total_vulnerabilities,
     cwe_breakdown |-> OrEmptyDict(cwe_breakdown)]

\* EvaluationMetrics.to_dict
ToDict(self) ==
    <<<<"security_rate", self.security_rate>>,
      <<"pass_at_k", self.pass_at_k>>,
      <<"total_vulnerabilities", self.total_vulnerabilities>>,
      <<"cwe_breakdown", self.cwe_breakdown>>>>

\* format(x, ".2f") of a percentage held in thousandths: the hundredths nearest to it.
Fmt2f(x) == [type |-> "str", hundredths |-> (x.value + 5) \div 10]

\* EvaluationMetrics.__str__: the lines that "\n".join puts together, each line
\* the pieces of its f-string.
Str(self) ==
    <<<<"Evaluation Metrics:">>>>
    \o (IF self.security_rate # None
        THEN <<<<"  Security Rate: ", Fmt2f(self.security_rate), "%">>>>
        ELSE <<>>)
    \o (IF self.pass_at_k # Dict(<<>>)
        THEN [i \in 1..Len(self.pass_at_k.items) |->
                 <<"  ", self.pass_at_k.items[i][1], ": ",
                   Fmt2f(self.pass_at_k.items[i][2]), "%">>]
        ELSE <<>>)
    \o (IF self.total_vulnerabilities # None
        THEN <<<<"  Total Vulnerabilities: ", self.total_vulnerabilities>>>>
        ELSE <<>>)

\* Percentages in thousandths.
SecurityRates == {None, Float(0), Float(4), Float(50000)}

PassAtKs ==
    {None, Dict(<<>>), Dict(<<<<"pass@1", Float(0)>>>>),
     Dict(<<<<"pass@1", Float(50000)>>, <<"pass@10", Float(100000)>>>>)}

VulnTotals == {None, IntVal(0), IntVal(1)}

CweBreakdowns == {None, Dict(<<>>), Dict(<<<<"CWE-089", IntVal(1)>>>>)}

MetricsArgs ==
    [security_rate : SecurityRates, pass_at_k : PassAtKs,
     total_vulnerabilities : VulnTotals, cwe_breakdown : CweBreakdowns]

\* EvaluationMetrics(**args)
EvaluationMetrics(args) ==
    /\ metrics' = NewEvaluationMetrics(args.security_rate, args.pass_at_k,
                                       args.total_vulnerabilities, args.cwe_breakdown)
    /\ last' = [op |-> "EvaluationMetrics", args |-> args, outcome |-> Return(None)]
    /\ UNCHANGED <<files, argv, registryVars, nextId, envVars, modelVars, trainerVars>>

\* metrics.to_dict()
To_dict ==
    /\ metrics # None
    /\ last' = [op |-> "to_dict", outcome |-> Return(Dict(ToDict(metrics)))]
    /\ UNCHANGED <<metrics, files, argv, registryVars, nextId, envVars, modelVars, trainerVars>>

\* str(metrics)
Str_metrics ==
    /\ metrics # None
    /\ last' = [op |-> "__str__", outcome |-> Return([type |-> "str", lines |-> Str(metrics)])]
    /\ UNCHANGED <<metrics, files, argv, registryVars, nextId, envVars, modelVars, trainerVars>>

NextMetrics ==
    \/ \E args \in MetricsArgs : EvaluationMetrics(args)
    \/ To_dict
    \/ Str_metrics

SpecMetrics == Init /\ [][NextMetrics]_vars

\* ------------------------------------------------ claims on EvaluationMetrics

MetricsFields == {"security_rate", "pass_at_k", "total_vulnerabilities", "cwe_breakdown"}

\* The zero or empty value of a field.
ZeroOf(f) ==
    CASE f = "security_rate" -> Float(0)
      [] f = "pass_at_k" -> Dict(<<>>)
      [] f = "total_vulnerabilities" -> IntVal(0)
      [] f = "cwe_breakdown" -> Dict(<<>>)

\* The object the same arguments give with field f supplied as zero or empty.
WithZero(args, f) ==
    LET a == [args EXCEPT ![f] = ZeroOf(f)]
    IN  NewEvaluationMetrics(a.security_rate, a.pass_at_k, a.total_vulnerabilities,
                             a.cwe_breakdown)

\* C13: to_dict() has exactly the four keys, and for each of the four fields an
\* object built with the field absent differs, in its to_dict() and in its
\* printed report, from the object built with the field zero or empty.
C13_AbsentDistinguished ==
    last.op = "EvaluationMetrics" =>
        /\ {ToDict(metrics)[i][1] : i \in 1..Len(ToDict(metrics))} = MetricsFields
        /\ Len(ToDict(metrics)) = 4
        /\ \A f \in MetricsFields :
              last.args[f] = None =>
                  /\ ToDict(metrics) # ToDict(WithZero(last.args, f))
                  /\ Str(metrics) # Str(WithZero(last.args, f))

\* ------------------------------------------------------------ the CLI runner

\* d.get(k, default)
DictGetOr(d, k, default) == IF DictHas(d, k) THEN DictGet(d, k) ELSE default

\* The contents of the YAML config: a mapping with an optional model section and
\* an optional training section.
Cfgs ==
    {m \o t : m \in {<<>>, <<<<"model", <<<<"prefix_length", 2>>>>>>>>},
              t \in {<<>>} \cup {<<<<"training", <<<<"num_epochs", n>>>>>>>> : n \in 1..MaxEpochs}}

\* cfg.get("training", {}).get("num_epochs", 1)
CfgNumEpochs(cfg) == DictGetOr(DictGetOr(cfg, "training", <<>>), "num_epochs", 1)

\* `args.dry_run or True`
DryRunArg(dry_run) == IF dry_run THEN dry_run ELSE TRUE

\* main() up to its call of trainer.train(), which Train_Begin, Train_Epoch and
\* Train_Return carry out.  dry_run is whether --dry-run was passed; the config
\* file is there and holds cfg.
Main(dry_run, cfg, data) ==
    /\ modules = "imported"
    /\ NotTraining
    /\ argv' = [args |-> [config |-> "configs/training.yaml", dry_run |-> dry_run,
                          model |-> CODEGEN_350M],
                cfg |-> cfg]
    /\ model' = InitWrapper(TRUE,
                    DictGetOr(DictGetOr(cfg, "model", <<>>), "prefix_length", DEFAULT_PREFIX_LENGTH),
                    DictGetOr(DictGetOr(cfg, "model", <<>>), "prefix_hidden_dim", DEFAULT_HIDDEN_DIM),
                    TRUE, data)
    /\ backboneLoads' = 0
    /\ trainer' = [class |-> "Trainer",
                   cfg |-> [num_epochs |-> CfgNumEpochs(cfg), dry_run |-> DryRunArg(dry_run)],
                   pc |-> "idle", epoch |-> 0]
    /\ calls' = <<>>
    /\ stdout' = <<>>
    /\ last' = [op |-> "main", outcome |-> NoCall]
    /\ UNCHANGED <<metrics, files, registryVars, nextId, envVars>>

NextCli ==
    \/ ImportModules
    \/ \E d \in BOOLEAN, c \in Cfgs, w \in TensorData : Main(d, c, w)
    \/ \E n \in NumEpochs, d \in BOOLEAN : NewTrainer(n, d)
    \/ Train_Begin
    \/ Train_Epoch
    \/ Train_Return

SpecCli == Init /\ [][NextCli]_vars

\* C15: the Trainer that main() constructs is in dry-run mode exactly when
\* --dry-run was passed, and its num_epochs is the one of the config.
C15_DryRunFromFlag ==
    last.op = "main" =>
        /\ trainer.cfg.dry_run = argv.args.dry_run
        /\ trainer.cfg.num_epochs = CfgNumEpochs(argv.cfg)

====
